---- MODULE Spec2Model ----
(***************************************************************************)
(* A model of TensorflowVision/trainv1_MobileNetV2.py: the manifest parser *)
(* of GarbageDataset.__init__, GarbageDataset.preprocess_image, the        *)
(* generator of GarbageDataset.create_dataset with its batch/prefetch      *)
(* stages, and the fit loop of main with its two callbacks.                *)
(*                                                                         *)
(* Strings are sequences of one-character strings, so that split, lstrip   *)
(* and int are computed character by character as Python computes them.    *)
(* Float pixel values are integers in units of 1/FloatOne.                 *)
(***************************************************************************)
EXTENDS Integers, Sequences, FiniteSets, TLC

VARIABLES
    manifest,       \* the lines of root_dir/txt_file, each without its newline
    ctor,           \* "new" | "constructed" | "raised": position of __init__
    data,           \* self.data
    num_samples,    \* self.num_samples
    is_training,    \* self.is_training
    img_path,       \* argument of the last preprocess_image call
    draws,          \* random draws (and op failure) of the last call
    ret,            \* outcome of the last preprocess_image call
    genPc,          \* generator position: "while" | "for" | "stopped" | "dead"
    indices,        \* the permutation of the current pass
    pos,            \* number of entries of indices already iterated
    pulling,        \* a next() on the generator is in progress
    produced,       \* number of pairs yielded so far
    passYields,     \* the pairs yielded in the current pass
    lastYield,      \* the last pair yielded
    buf,            \* elements collected by batch() for the next batch
    prefetched,     \* complete batches held by prefetch()
    epoch,          \* fit: current training epoch (1-based)
    step,           \* fit: batches consumed in the current epoch
    delivered,      \* fit: number of batches consumed in all
    lastBatch,      \* fit: the last batch consumed, with its epoch
    tEpoch,         \* callbacks model: epochs completed
    val_loss,       \* val_loss of the last completed epoch
    lr,             \* optimizer learning rate
    weights,        \* model weights, named by the epoch that produced them
    stop_training,  \* model.stop_training
    esWait, esBest, esBestWeights,   \* EarlyStopping state
    rlrWait, rlrBest,                \* ReduceLROnPlateau state
    gMin,           \* history: least val_loss so far
    gMinEpoch,      \* history: the first epoch that reached gMin
    gStale,         \* history: consecutive epochs whose val_loss was not below gMin
    gRef, gPlat,    \* history: plateau reference and length (1e-4 rule, restarted on a reduction)
    lrBefore,       \* learning rate the last epoch was trained with
    trainDone       \* fit has returned

parseVars == <<manifest, ctor, data, num_samples>>
preVars   == <<is_training, img_path, draws, ret>>
genVars   == <<genPc, indices, pos, pulling, produced, passYields, lastYield,
               buf, prefetched, epoch, step, delivered, lastBatch>>
fitVars   == <<tEpoch, val_loss, lr, weights, stop_training, esWait, esBest,
               esBestWeights, rlrWait, rlrBest, gMin, gMinEpoch, gStale, gRef, gPlat,
               lrBefore, trainDone>>
vars      == <<parseVars, preVars, genVars, fitVars>>

-----------------------------------------------------------------------------
(* Program constants and model bounds *)

NUM_CLASSES == 40
\* IMG_SIZE and BATCH_SIZE are 224 and 32 in the program; the model scales
\* them down, every operator below is written for any value.
IMG_SIZE == 2
BATCH_SIZE == 2
MaxLines == 2        \* manifests of the parser model have at most this many lines
MaxSamples == 3      \* manifests of the generator model have at most this many lines
MaxEpochs == 2       \* training epochs followed in the generator model
PrefetchDepth == 1   \* batches prefetch() may hold ahead of the consumer
MaxLoss == 6         \* val_loss ranges over 0..MaxLoss, in units of 1e-4

-----------------------------------------------------------------------------
(* Python string helpers *)

Whitespace == {" ", "\t"}
Digits == {"0", "1", "2", "3", "4", "5", "6", "7", "8", "9"}

DigitVal(c) ==
    CASE c = "0" -> 0 [] c = "1" -> 1 [] c = "2" -> 2 [] c = "3" -> 3
      [] c = "4" -> 4 [] c = "5" -> 5 [] c = "6" -> 6 [] c = "7" -> 7
      [] c = "8" -> 8 [] c = "9" -> 9

\* str.split() with no argument: the maximal runs of non-whitespace
RECURSIVE SplitFrom(_, _, _)
SplitFrom(s, cur, acc) ==
    IF s = <<>> THEN (IF cur = <<>> THEN acc ELSE Append(acc, cur))
    ELSE IF Head(s) \in Whitespace
         THEN SplitFrom(Tail(s), <<>>, IF cur = <<>> THEN acc ELSE Append(acc, cur))
         ELSE SplitFrom(Tail(s), Append(cur, Head(s)), acc)

\* str.strip(): whitespace removed from both ends
RECURSIVE LStripWs(_)
LStripWs(s) == IF s # <<>> /\ Head(s) \in Whitespace THEN LStripWs(Tail(s)) ELSE s
RECURSIVE RStripWs(_)
RStripWs(s) ==
    IF s # <<>> /\ s[Len(s)] \in Whitespace THEN RStripWs(SubSeq(s, 1, Len(s) - 1)) ELSE s
Strip(s) == RStripWs(LStripWs(s))

Split(line) == SplitFrom(Strip(line), <<>>, <<>>)

\* str.lstrip(chars): every leading character that is in chars is removed
RECURSIVE LStrip(_, _)
LStrip(s, chars) ==
    IF s # <<>> /\ Head(s) \in chars THEN LStrip(Tail(s), chars) ELSE s

\* int(str) of a token: an optional sign and at least one digit, else ValueError
IsIntLiteral(tok) ==
    LET body == IF tok # <<>> /\ Head(tok) \in {"+", "-"} THEN Tail(tok) ELSE tok
    IN  body # <<>> /\ \A i \in 1..Len(body) : body[i] \in Digits

RECURSIVE DecimalValue(_, _)
DecimalValue(ds, acc) ==
    IF ds = <<>> THEN acc ELSE DecimalValue(Tail(ds), 10 * acc + DigitVal(Head(ds)))

IntOf(tok) ==
    IF Head(tok) = "-" THEN 0 - DecimalValue(Tail(tok), 0)
    ELSE IF Head(tok) = "+" THEN DecimalValue(Tail(tok), 0)
    ELSE DecimalValue(tok, 0)

-----------------------------------------------------------------------------
(* GarbageDataset.__init__: the manifest parser *)

\* the body of the for loop for one line: the sample appended, or a ValueError
ParseLine(line) ==
    LET toks == Split(line)
    IN  IF Len(toks) # 2 THEN [kind |-> "raised"]
        ELSE IF ~IsIntLiteral(toks[2]) THEN [kind |-> "raised"]
        ELSE [kind |-> "ok", sample |-> <<LStrip(toks[1], {".", "/"}), IntOf(toks[2])>>]

\* the whole for loop: the list built, or the first exception
RECURSIVE ParseLines(_, _)
ParseLines(lines, acc) ==
    IF lines = <<>> THEN [kind |-> "ok", data |-> acc]
    ELSE LET r == ParseLine(Head(lines))
         IN  IF r.kind = "raised" THEN [kind |-> "raised", data |-> acc]
             ELSE ParseLines(Tail(lines), Append(acc, r.sample))

-----------------------------------------------------------------------------
(* Images.  An image is [shape |-> <<h, w, c>>, px |-> a function from     *)
(* (1..h) \X (1..w) to triples, nan |-> whether some element is NaN].      *)
(* uint8 images hold 0..255; float images hold multiples of 1/FloatOne.    *)

Uint8Max == 255
FloatOne == 5 * Uint8Max         \* the float 1.0, so that 0.2 is a whole number of units
Grid(h, w) == (1..h) \X (1..w)

\* files under root_dir: "a" an IMG_SIZE x IMG_SIZE picture, "b" and "d"
\* one-pixel pictures; every other path is missing or not decodable
PictureA ==
    [shape |-> <<IMG_SIZE, IMG_SIZE, 3>>,
     px |-> [p \in Grid(IMG_SIZE, IMG_SIZE) |->
               <<IF p[1] = 1 THEN 0 ELSE 255, (p[2] * 60) % 256, ((p[1] + 2 * p[2]) * 85) % 256>>],
     nan |-> FALSE]
OnePixel(b, g, r) ==
    [shape |-> <<1, 1, 3>>, px |-> [p \in Grid(1, 1) |-> <<b, g, r>>], nan |-> FALSE]

None == [shape |-> <<0, 0, 0>>, px |-> <<>>, nan |-> FALSE]

\* cv2.imread: the decoded BGR uint8 image, or None
ImRead(path) ==
    IF path = <<"a">> THEN PictureA
    ELSE IF path = <<"b">> THEN OnePixel(255, 0, 128)
    ELSE IF path = <<"d">> THEN OnePixel(255, 255, 255)
    ELSE None

\* cv2.cvtColor(img, COLOR_BGR2RGB)
CvtColor(img) ==
    [img EXCEPT !.px = [p \in DOMAIN img.px |-> <<img.px[p][3], img.px[p][2], img.px[p][1]>>]]

\* cv2.resize(img, (size, size)).  Each output pixel is taken from the source
\* pixel it falls in; on the pictures of ImRead (already size x size, or one
\* pixel) this is what bilinear interpolation gives.
Resize(img, size) ==
    [shape |-> <<size, size, img.shape[3]>>,
     px |-> [p \in Grid(size, size) |->
               img.px[<<((p[1] - 1) * img.shape[1]) \div size + 1,
                        ((p[2] - 1) * img.shape[2]) \div size + 1>>]],
     nan |-> img.nan]

\* img.astype(np.float32) / 255.0
ToFloat(img) ==
    [img EXCEPT !.px = [p \in DOMAIN img.px |->
        [c \in 1..3 |-> (img.px[p][c] * FloatOne) \div Uint8Max]]]

\* np.zeros / tf.zeros((IMG_SIZE, IMG_SIZE, 3))
Zeros ==
    [shape |-> <<IMG_SIZE, IMG_SIZE, 3>>,
     px |-> [p \in Grid(IMG_SIZE, IMG_SIZE) |-> <<0, 0, 0>>],
     nan |-> FALSE]

\* tf.reduce_any(tf.math.is_nan(img))
HasNaN(img) == img.nan

\* tf.image.flip_left_right / flip_up_down, applied when the draw says so
FlipLeftRight(img, flip) ==
    IF ~flip THEN img
    ELSE [img EXCEPT !.px = [p \in DOMAIN img.px |-> img.px[<<p[1], img.shape[2] + 1 - p[2]>>]]]
FlipUpDown(img, flip) ==
    IF ~flip THEN img
    ELSE [img EXCEPT !.px = [p \in DOMAIN img.px |-> img.px[<<img.shape[1] + 1 - p[1], p[2]>>]]]

\* one counter-clockwise quarter turn: out[i, j] = in[j, w + 1 - i]
Rot90Once(img) ==
    [shape |-> <<img.shape[2], img.shape[1], img.shape[3]>>,
     px |-> [p \in Grid(img.shape[2], img.shape[1]) |-> img.px[<<p[2], img.shape[2] + 1 - p[1]>>]],
     nan |-> img.nan]
RECURSIVE Rot90(_, _)
Rot90(img, k) == IF k = 0 THEN img ELSE Rot90(Rot90Once(img), k - 1)

\* tf.image.random_brightness: delta is added to every element
AdjustBrightness(img, delta) ==
    [img EXCEPT !.px = [p \in DOMAIN img.px |-> [c \in 1..3 |-> img.px[p][c] + delta]]]

\* a mutant of ClipByValue: the clamp is left out
ClipSkipped(img, lo, hi) == img

\* tf.clip_by_value(img, lo, hi)
ClipByValue(img, lo, hi) ==
    [img EXCEPT !.px = [p \in DOMAIN img.px |->
        [c \in 1..3 |-> IF img.px[p][c] < lo THEN lo
                         ELSE IF img.px[p][c] > hi THEN hi ELSE img.px[p][c]]]]

\* the random draws of one call: the two flips, k of rot90, the brightness
\* delta in [-0.2, 0.2), and the transform (if any) that raises
AugmentOps == <<"flip_left_right", "flip_up_down", "rot90", "random_brightness", "clip_by_value">>
Deltas == {0 - 255, 0 - 100, 0, 100, 254}
Draws ==
    [flip_lr : BOOLEAN, flip_ud : BOOLEAN, k : 0..3, delta : Deltas,
     fail : {"none"} \cup {AugmentOps[i] : i \in 1..Len(AugmentOps)}]

Returned(img) == [kind |-> "returned", img |-> img]
Raised == [kind |-> "raised", img |-> None]

\* a mutant of OnAugmentException: the exception is raised again
AugmentExceptionReraised(img) == Raised

\* lines 90-92: except Exception: print, return tf.zeros(...)
OnAugmentException(img) == Returned(Zeros)

\* lines 74-92: the try block
Augment(img, d) ==
    IF d.fail # "none" THEN OnAugmentException(img)
    ELSE Returned(ClipByValue(
             AdjustBrightness(
                 Rot90(FlipUpDown(FlipLeftRight(img, d.flip_lr), d.flip_ud), d.k),
                 d.delta),
             0, FloatOne))

\* lines 50-58: imread, and the placeholder or the converted picture
LoadImage(path) ==
    LET raw == ImRead(path)
    IN  IF raw = None THEN Zeros
        ELSE ToFloat(Resize(CvtColor(raw), IMG_SIZE))

\* GarbageDataset.preprocess_image
PreprocessImage(path, training, d) ==
    LET img == LoadImage(path)
    IN  IF ~training THEN Returned(img)
        ELSE IF HasNaN(img) THEN Returned(Zeros)
        ELSE IF img.shape # <<IMG_SIZE, IMG_SIZE, 3>> THEN Raised   \* assert_equal, outside the try
        ELSE Augment(img, d)

IsZeroImage(img) ==
    /\ img.shape = <<IMG_SIZE, IMG_SIZE, 3>>
    /\ \A p \in DOMAIN img.px : img.px[p] = <<0, 0, 0>>

InUnitRange(img) ==
    \A p \in DOMAIN img.px : \A c \in 1..3 : img.px[p][c] >= 0 /\ img.px[p][c] <= FloatOne

PrePaths == {<<"a">>, <<"b">>, <<"c">>, <<"d">>}
NoDraws == [flip_lr |-> FALSE, flip_ud |-> FALSE, k |-> 0, delta |-> 0, fail |-> "none"]
NoCall == [kind |-> "none", img |-> None]

-----------------------------------------------------------------------------
(* Values of the variables a specification does not use *)

ParseIdle == manifest = <<>> /\ ctor = "new" /\ data = <<>> /\ num_samples = 0
PreIdle   == img_path = <<>> /\ draws = NoDraws /\ ret = NoCall
GenIdle   ==
    /\ genPc = "while" /\ indices = <<>> /\ pos = 0 /\ pulling = FALSE
    /\ produced = 0 /\ passYields = <<>> /\ lastYield = <<>>
    /\ buf = <<>> /\ prefetched = <<>>
    /\ epoch = 1 /\ step = 0 /\ delivered = 0 /\ lastBatch = <<>>
FitIdle   ==
    /\ tEpoch = 0 /\ val_loss = 0 /\ lr = 0 /\ weights = 0 /\ stop_training = FALSE
    /\ esWait = 0 /\ esBest = 0 /\ esBestWeights = 0 /\ rlrWait = 0 /\ rlrBest = 0
    /\ gMin = 0 /\ gMinEpoch = 0 /\ gStale = 0 /\ gRef = 0 /\ gPlat = 0
    /\ lrBefore = 0 /\ trainDone = FALSE

-----------------------------------------------------------------------------
(* SpecParse: constructing a GarbageDataset from a manifest *)

Cat3(a, b, c) == a \o b \o c
LinePaths  == {<<"a">>, <<".", "/", "a">>, <<".", ".", "/", "a">>, <<".", "a">>, <<"/", "a">>}
LineLabels == {<<"3">>, <<"0">>, <<"3", "9">>, <<"4", "0">>, <<"-", "1">>, <<"x">>}
ManifestLines ==
    {Cat3(p, <<" ">>, l) : p \in LinePaths, l \in LineLabels}
      \cup {<<>>, <<"a">>, <<"a", " ", "3", " ", "b">>}

SeqsUpTo(S, n) == UNION {[1..k -> S] : k \in 0..n}

ParseInit ==
    /\ manifest \in SeqsUpTo(ManifestLines, MaxLines)
    /\ ctor = "new" /\ data = <<>> /\ num_samples = 0
    /\ is_training = TRUE
    /\ PreIdle /\ GenIdle /\ FitIdle

\* GarbageDataset.__init__
DatasetInit ==
    /\ ctor = "new"
    /\ LET r == ParseLines(manifest, <<>>)
       IN  IF r.kind = "ok"
           THEN /\ data' = r.data
                /\ num_samples' = Len(r.data)
                /\ ctor' = "constructed"
           ELSE /\ data' = r.data
                /\ ctor' = "raised"
                /\ UNCHANGED num_samples
    /\ UNCHANGED <<manifest, is_training, img_path, draws, ret, genVars, fitVars>>

ParseNext == DatasetInit
SpecParse == ParseInit /\ [][ParseNext]_vars

NonEmptyLines(lines) == SelectSeq(lines, LAMBDA l : l # <<>>)
WellFormedLine(l) == Len(Split(l)) = 2 /\ IsIntLiteral(Split(l)[2])

\* C3: a manifest whose non-empty lines are all `<path> <integer>` constructs
\* successfully with one sample per non-empty line, in file order; empty
\* lines are skipped and cause no failure.
C3_EmptyLinesSkipped ==
    (ctor # "new" /\ \A i \in 1..Len(manifest) : manifest[i] # <<>> => WellFormedLine(manifest[i]))
      => /\ ctor = "constructed"
         /\ num_samples = Len(NonEmptyLines(manifest))
         /\ Len(data) = num_samples
         /\ \A i \in 1..Len(data) : data[i][2] = IntOf(Split(NonEmptyLines(manifest)[i])[2])

\* the path with one leading "./" removed, as the manifest format describes it
RemovePrefixDotSlash(s) ==
    IF Len(s) >= 2 /\ s[1] = "." /\ s[2] = "/" THEN SubSeq(s, 3, Len(s)) ELSE s

\* C4: the stored path is the manifest path with one leading "./" removed,
\* and nothing else removed.
C4_OnlyDotSlashRemoved ==
    ctor = "constructed" =>
        \A i \in 1..Len(data) : data[i][1] = RemovePrefixDotSlash(Split(manifest[i])[1])

\* C8: every label of a successfully constructed index is in [0, NUM_CLASSES).
C8_LabelsInRange ==
    ctor = "constructed" =>
        \A i \in 1..Len(data) : data[i][2] >= 0 /\ data[i][2] < NUM_CLASSES

-----------------------------------------------------------------------------
(* SpecPre: calls of preprocess_image *)

PreInit ==
    /\ is_training \in BOOLEAN
    /\ PreIdle /\ ParseIdle /\ GenIdle /\ FitIdle

\* one call of preprocess_image, on any path and with any draws
PreprocessCall ==
    /\ ret = NoCall
    /\ \E path \in PrePaths, d \in Draws :
          /\ img_path' = path
          /\ draws' = d
          /\ ret' = PreprocessImage(path, is_training, d)
    /\ UNCHANGED <<is_training, parseVars, genVars, fitVars>>

\* the caller (line 101) takes the returned tensor and goes on to the next call
TakeResult ==
    /\ ret.kind = "returned"
    /\ img_path' = <<>> /\ draws' = NoDraws /\ ret' = NoCall
    /\ UNCHANGED <<is_training, parseVars, genVars, fitVars>>

PreNext == PreprocessCall \/ TakeResult
SpecPre == PreInit /\ [][PreNext]_vars

\* C1: every value preprocess_image returns, in either mode and on every
\* path, has shape (IMG_SIZE, IMG_SIZE, 3) and all values within [0, 1].
C1_ShapeAndRange ==
    ret.kind = "returned" =>
        /\ ret.img.shape = <<IMG_SIZE, IMG_SIZE, 3>>
        /\ DOMAIN ret.img.px = Grid(IMG_SIZE, IMG_SIZE)
        /\ ~HasNaN(ret.img)
        /\ InUnitRange(ret.img)

\* a resized one-pixel file, rotated and brightened up to the clamp
C1_Witness ==
    /\ ret.kind = "returned" /\ is_training /\ img_path = <<"b">>
    /\ draws.fail = "none" /\ draws.k = 1 /\ draws.delta > 0
    /\ \A p \in DOMAIN ret.img.px : ret.img.px[p][1] < FloatOne /\ ret.img.px[p][3] = FloatOne

\* C2: in training mode a missing or undecodable file gives the all-zero
\* placeholder, whatever the augmenter draws, and no exception.
C2_MissingFileAllZero ==
    (ret.kind # "none" /\ is_training /\ ImRead(img_path) = None)
      => (ret.kind = "returned" /\ IsZeroImage(ret.img))

AugmentationFailed ==
    \/ draws.fail # "none"
    \/ HasNaN(LoadImage(img_path))
    \/ LoadImage(img_path).shape # <<IMG_SIZE, IMG_SIZE, 3>>

-----------------------------------------------------------------------------
(* SpecGen: the generator of create_dataset, batch(), prefetch(), and the   *)
(* batches model.fit takes from the training dataset                        *)

GenLines == {<<".", "/", "a", " ", "0">>, <<"c", " ", "3", "9">>}

GenInit ==
    /\ manifest \in SeqsUpTo(GenLines, MaxSamples)
    /\ data = ParseLines(manifest, <<>>).data
    /\ num_samples = Len(data)
    /\ ctor = "constructed"
    /\ is_training = TRUE
    /\ PreIdle /\ GenIdle /\ FitIdle

\* a mutant of Permutation: indices drawn with replacement
RandomIndices(n) == [1..n -> 1..n]

\* np.random.permutation(n): the possible results, 1-based
Permutation(n) == {f \in [1..n -> 1..n] : \A i, j \in 1..n : f[i] = f[j] => i = j}

\* a mutant of AfterPass: no `while True`, the generator ends after one pass
StopAfterPass == "stopped"

\* where the generator goes when the for loop is exhausted: back to line 97
AfterPass == "while"

\* a mutant of steps_per_epoch: rounds up
StepsRoundedUp == (num_samples + BATCH_SIZE - 1) \div BATCH_SIZE

\* main, line 157
steps_per_epoch == num_samples \div BATCH_SIZE

\* how a call of preprocess_image can end (returned or raised), over all
\* draws, for each path of the index and each mode
GenPaths == {ParseLine(l).sample[1] : l \in GenLines}
PreprocessOutcomes ==
    [path \in GenPaths, training \in BOOLEAN |->
        {PreprocessImage(path, training, d).kind : d \in Draws}]

\* the pipeline asks the generator for its next element
Pull ==
    /\ ~pulling
    /\ genPc \in {"while", "for"}
    /\ epoch <= MaxEpochs
    /\ Len(prefetched) < PrefetchDepth
    /\ pulling' = TRUE
    /\ UNCHANGED <<genPc, indices, pos, produced, passYields, lastYield, buf, prefetched,
                   epoch, step, delivered, lastBatch, parseVars, preVars, fitVars>>

\* line 98: a fresh permutation at the top of the while loop
GenShuffle ==
    /\ pulling /\ genPc = "while"
    /\ \E perm \in Permutation(Len(data)) : indices' = perm
    /\ pos' = 0
    /\ passYields' = <<>>
    /\ genPc' = "for"
    /\ UNCHANGED <<pulling, produced, lastYield, buf, prefetched,
                   epoch, step, delivered, lastBatch, parseVars, preVars, fitVars>>

\* lines 99-101: one step of the for loop.  A yielded pair goes to batch(),
\* and a batch that is complete goes to prefetch().
GenNext ==
    /\ pulling /\ genPc = "for"
    /\ IF pos < Len(indices)
       THEN LET idx == indices[pos + 1]
                sample == data[idx]
            IN  \E kind \in PreprocessOutcomes[sample[1], is_training] :
                  IF kind = "raised"
                  THEN /\ genPc' = "dead"
                       /\ UNCHANGED <<pulling, pos, produced, passYields, lastYield, buf, prefetched>>
                  ELSE LET elem == [idx |-> idx, path |-> sample[1], label |-> sample[2],
                                    seq |-> produced + 1, pos |-> pos + 1,
                                    pass |-> (IF passYields = <<>> THEN 1 ELSE 0)
                                             + (IF lastYield = <<>> THEN 0 ELSE lastYield.pass)]
                           \* what batch() receives: the yielded pair, named by
                           \* its place in the stream
                           full == Append(buf, [seq |-> elem.seq, pos |-> elem.pos,
                                                pass |-> elem.pass])
                       IN  /\ pos' = pos + 1
                           /\ produced' = produced + 1
                           /\ passYields' = Append(passYields, elem)
                           /\ lastYield' = elem
                           /\ pulling' = FALSE
                           /\ IF Len(full) = BATCH_SIZE
                              THEN buf' = <<>> /\ prefetched' = Append(prefetched, full)
                              ELSE buf' = full /\ UNCHANGED prefetched
                           /\ UNCHANGED genPc
       ELSE /\ genPc' = AfterPass
            /\ UNCHANGED <<pulling, pos, produced, passYields, lastYield, buf, prefetched>>
    /\ UNCHANGED <<indices, epoch, step, delivered, lastBatch, parseVars, preVars, fitVars>>

\* fit: one training step takes the next batch of the dataset
TrainStep ==
    /\ epoch <= MaxEpochs
    /\ step < steps_per_epoch
    /\ prefetched # <<>>
    /\ lastBatch' = [epoch |-> epoch, step |-> step + 1, elems |-> Head(prefetched)]
    /\ prefetched' = Tail(prefetched)
    /\ step' = step + 1
    /\ delivered' = delivered + 1
    /\ UNCHANGED <<genPc, indices, pos, pulling, produced, passYields, lastYield, buf,
                   epoch, parseVars, preVars, fitVars>>

\* fit: the epoch ends after steps_per_epoch steps; the iterator is kept
EpochEnd ==
    /\ epoch <= MaxEpochs
    /\ steps_per_epoch >= 1
    /\ step = steps_per_epoch
    /\ epoch' = epoch + 1
    /\ step' = 0
    /\ UNCHANGED <<genPc, indices, pos, pulling, produced, passYields, lastYield, buf,
                   prefetched, delivered, lastBatch, parseVars, preVars, fitVars>>

GenNextRel == Pull \/ GenShuffle \/ GenNext \/ TrainStep \/ EpochEnd
SpecGen == GenInit /\ [][GenNextRel]_vars
\* next() runs the generator body until it yields
FairGen == SpecGen /\ WF_vars(GenShuffle) /\ WF_vars(GenNext)

C6_EveryPullReturns == pulling ~> ~pulling

\* C6 as amended: for num_samples >= 1 every pull eventually returns a pair,
\* and the generator never ends or fails.
C6_EveryPullReturnsNonEmpty ==
    /\ [](genPc \in {"while", "for"})
    /\ (pulling /\ num_samples >= 1) ~> ~pulling

\* a pair yielded after a reshuffle
C6_Witness ==
    /\ num_samples >= 1 /\ ~pulling
    /\ produced > num_samples /\ lastYield.pass >= 2 /\ lastYield.seq = produced

\* C10: each block of N yields starting at a pass boundary holds every
\* position of the index exactly once; each yielded label is the label of
\* the sample whose path went to preprocess_image; the index is not modified.
C10_PassIsPermutation ==
    /\ data = ParseLines(manifest, <<>>).data
    /\ \A j \in 1..Len(passYields) :
          LET e == passYields[j]
          IN  /\ e.idx \in 1..num_samples
              /\ e.path = data[e.idx][1]
              /\ e.label = data[e.idx][2]
              /\ (e.seq - 1) % num_samples = j - 1
              /\ \A i \in 1..Len(passYields) : passYields[i].idx = e.idx => i = j
    /\ (genPc = "for" /\ pos = Len(indices) /\ num_samples >= 1) =>
          {passYields[j].idx : j \in 1..Len(passYields)} = 1..num_samples

\* the second pass completed, over an index that holds a sample twice
C10_Witness ==
    /\ num_samples >= 2 /\ data[1] = data[2]
    /\ genPc = "for" /\ pos = Len(indices)
    /\ Len(passYields) = num_samples /\ passYields[1].pass = 2

-----------------------------------------------------------------------------
(* SpecTrain: the epochs of model.fit with EarlyStopping(patience=3,        *)
(* restore_best_weights=True) and ReduceLROnPlateau(factor=0.2, patience=2) *)
(* on val_loss.  Losses are integers in units of 1e-4; the learning rate is *)
(* an integer number of units chosen so that every reduction is exact.      *)

EPOCHS == 20
ES_PATIENCE == 3
RLR_PATIENCE == 2
FactorNum == 1
FactorDen == 5
MinDelta == 1                       \* ReduceLROnPlateau's min_delta, 1e-4
Inf == MaxLoss + MinDelta + 1       \* the initial `best` of both callbacks
InitialLR == FactorDen ^ (EPOCHS \div RLR_PATIENCE)     \* learning_rate=0.001

TrainInit ==
    /\ tEpoch = 0 /\ val_loss = 0
    /\ lr = InitialLR /\ lrBefore = InitialLR
    /\ weights = 0 /\ stop_training = FALSE /\ trainDone = FALSE
    /\ esWait = 0 /\ esBest = Inf /\ esBestWeights = 0
    /\ rlrWait = 0 /\ rlrBest = Inf
    /\ gMin = Inf /\ gMinEpoch = 0 /\ gStale = 0 /\ gRef = Inf /\ gPlat = 0
    /\ is_training = TRUE
    /\ ParseIdle /\ PreIdle /\ GenIdle

\* a mutant of ReduceLR: the rate is halved
HalveLR(rate) == rate \div 2

\* ReduceLROnPlateau: new_lr = old_lr * factor
ReduceLR(rate) == (rate * FactorNum) \div FactorDen

\* EarlyStopping.on_epoch_end, given the epoch's val_loss and fresh weights
EarlyStoppingEnd(e, loss) ==
    IF loss < esBest
    THEN /\ esBest' = loss
         /\ esBestWeights' = e
         /\ esWait' = 0
         /\ weights' = e
         /\ UNCHANGED stop_training
    ELSE /\ esWait' = esWait + 1
         /\ UNCHANGED <<esBest, esBestWeights>>
         /\ IF esWait + 1 >= ES_PATIENCE
            THEN stop_training' = TRUE /\ weights' = esBestWeights
            ELSE weights' = e /\ UNCHANGED stop_training

\* ReduceLROnPlateau.on_epoch_end (cooldown 0, min_lr 0)
ReduceLROnPlateauEnd(loss) ==
    IF loss < rlrBest - MinDelta
    THEN rlrBest' = loss /\ rlrWait' = 0 /\ UNCHANGED lr
    ELSE /\ UNCHANGED rlrBest
         /\ IF rlrWait + 1 >= RLR_PATIENCE
            THEN IF lr > 0
                 THEN lr' = ReduceLR(lr) /\ rlrWait' = 0
                 ELSE UNCHANGED lr /\ rlrWait' = rlrWait + 1
            ELSE rlrWait' = rlrWait + 1 /\ UNCHANGED lr

\* the history of val_loss, kept apart from the callbacks' own state
History(e, loss) ==
    /\ gMin' = IF loss < gMin THEN loss ELSE gMin
    /\ gMinEpoch' = IF loss < gMin THEN e ELSE gMinEpoch
    /\ gStale' = IF loss < gMin THEN 0 ELSE gStale + 1
    /\ gRef' = IF loss < gRef - 1 THEN loss ELSE gRef
    /\ gPlat' = IF loss < gRef - 1 THEN 0
                ELSE (IF gPlat >= 2 THEN 0 ELSE gPlat) + 1

\* one epoch of fit: training, validation, then the callbacks in list order
Epoch ==
    /\ ~trainDone /\ ~stop_training /\ tEpoch < EPOCHS
    /\ \E loss \in 0..MaxLoss :
          /\ val_loss' = loss
          /\ EarlyStoppingEnd(tEpoch + 1, loss)
          /\ ReduceLROnPlateauEnd(loss)
          /\ History(tEpoch + 1, loss)
    /\ tEpoch' = tEpoch + 1
    /\ lrBefore' = lr
    /\ UNCHANGED <<trainDone, is_training, parseVars, img_path, draws, ret, genVars>>

\* fit returns: the budget is used up or a callback asked to stop
FitReturn ==
    /\ ~trainDone
    /\ (stop_training \/ tEpoch = EPOCHS)
    /\ trainDone' = TRUE
    /\ UNCHANGED <<tEpoch, val_loss, lr, weights, stop_training, esWait, esBest,
                   esBestWeights, rlrWait, rlrBest, gMin, gMinEpoch, gStale, gRef, gPlat,
                   lrBefore, is_training, parseVars, img_path, draws, ret, genVars>>

TrainNext == Epoch \/ FitReturn
SpecTrain == TrainInit /\ [][TrainNext]_vars

\* C9 as claimed: after 2 consecutive epochs without improvement of val_loss
\* the learning rate is exactly halved; after 3, training stops before the
\* 20-epoch budget is used up and the model holds the best epoch's weights.
C9_HalvedAndStoppedEarly ==
    /\ gStale = 2 => 2 * lr = lrBefore
    /\ gStale = 3 => (stop_training /\ tEpoch < 20 /\ weights = gMinEpoch)

\* C9 as amended: after 2 consecutive epochs in which val_loss did not fall
\* more than 1e-4 below its best (counted afresh after a reduction) the
\* learning rate is exactly 0.2 times what it was, and otherwise it is
\* unchanged; after 3 consecutive epochs in which val_loss did not fall below
\* its best, training stops with that epoch, which is at most the 20th, and
\* the model holds the weights of the best epoch.
C9_FifthAndStopped ==
    /\ tEpoch >= 1 => (IF gPlat = 2 THEN 5 * lr = lrBefore ELSE lr = lrBefore)
    /\ gStale = 3 => (stop_training /\ tEpoch <= 20 /\ weights = gMinEpoch)
    /\ gStale < 3 => (~stop_training /\ weights = tEpoch)
    /\ trainDone => (stop_training \/ tEpoch = 20)

\* stopped by EarlyStopping at the end of the 20th epoch, after a reduction
C9_Witness ==
    /\ trainDone /\ stop_training /\ tEpoch = 20 /\ gStale = 3
    /\ weights = gMinEpoch /\ weights = 17
    /\ lr < InitialLR

====
